---- MODULE Spec2Model ----
(***************************************************************************)
(* Model of the HTTP transport layer of mql-sdk (src/src/client.ts):       *)
(* HttpClient construction and the buffered request path                   *)
(* (get/post/put/patch/delete -> requestWithRetry) with its timeout timer, *)
(* retry/backoff and error classification.                                 *)
(***************************************************************************)
EXTENDS Integers, Sequences, FiniteSets, TLC

(***************************************************************************)
(* Bounds of the model                                                     *)
(***************************************************************************)
\* largest value of options.maxRetries a client is constructed with
MaxRetriesOpt == 5

(***************************************************************************)
(* Values                                                                  *)
(***************************************************************************)
\* JavaScript undefined, for string-valued fields
Undefined == "undefined"
\* JavaScript undefined, for number-valued options
UndefinedNum == -1

DefaultMaxRetries == 3
DefaultTimeout == 30000
BackoffBase == 1000
BackoffCap == 10000

Methods == {"GET", "POST", "PUT", "PATCH", "DELETE"}

\* HTTP statuses the transport answers with
Statuses == {200, 204, 404, 500, 503}

StatusText(status) ==
    CASE status = 200 -> "OK"
      [] status = 204 -> "No Content"
      [] status = 404 -> "Not Found"
      [] status = 500 -> "Internal Server Error"
      [] status = 503 -> "Service Unavailable"
      [] OTHER -> ""

\* response bodies: text that parses as JSON (with the parsed value), or not
NotFoundPayload == [error |-> "not found", code |-> "NOT_FOUND", details |-> Undefined]
ServerPayload == [error |-> "internal error", code |-> "INTERNAL", details |-> "trace-1"]
NoPayload == [error |-> Undefined, code |-> Undefined, details |-> Undefined]
Bodies ==
    { [parses |-> TRUE, json |-> NotFoundPayload],
      [parses |-> TRUE, json |-> ServerPayload],
      [parses |-> FALSE, json |-> NoPayload] }
NoBody == [parses |-> FALSE, json |-> NoPayload]

\* the empty object literal {} returned for 204
EmptyObject == [empty |-> TRUE]

\* what one invocation of the transport function can end with
Responses ==
    { [type |-> "response", status |-> s, body |-> b, name |-> "", message |-> ""] :
        s \in Statuses, b \in Bodies }
NetworkMessages == {"ECONNRESET", "socket hang up"}
NetworkErrors ==
    { [type |-> "error", status |-> 0, body |-> NoBody, name |-> "TypeError", message |-> m] :
        m \in NetworkMessages }
AbortError ==
    [type |-> "error", status |-> 0, body |-> NoBody, name |-> "AbortError",
     message |-> "This operation was aborted"]
NonErrorThrow ==
    [type |-> "nonerror", status |-> 0, body |-> NoBody, name |-> "", message |-> ""]
NoOutcome == [type |-> "none", status |-> 0, body |-> NoBody, name |-> "", message |-> ""]

\* the rejection of response.json() on a body that is not JSON
SyntaxError ==
    [type |-> "error", status |-> 0, body |-> NoBody, name |-> "SyntaxError",
     message |-> "Unexpected token"]

OutcomeClass(o) == [type |-> o.type, status |-> o.status, name |-> o.name]

(***************************************************************************)
(* MQLAPIError                                                             *)
(***************************************************************************)
MQLAPIError(message, status, code, details) ==
    [type |-> "apierror", message |-> message, status |-> status,
     code |-> code, details |-> details]

\* variant: the status of the response is not handed on
FromResponseNoStatus(errorBody, status) ==
    MQLAPIError(errorBody.error, 0, errorBody.code, errorBody.details)

FromResponse(errorBody, status) ==
    MQLAPIError(errorBody.error, status, errorBody.code, errorBody.details)

NoResult == [kind |-> "none"]
Returned(value) == [kind |-> "value", value |-> value]
Raised(err) == [kind |-> "error", error |-> err]

(***************************************************************************)
(* HttpClient constructor                                                  *)
(***************************************************************************)
\* JavaScript `v || d` on a number: undefined and 0 are falsy
OrDefault(v, d) == IF v = UndefinedNum \/ v = 0 THEN d ELSE v

OptionSets ==
    [ maxRetries : {UndefinedNum} \cup (0..MaxRetriesOpt),
      timeout : {UndefinedNum, 60000} ]

Constructor(options) ==
    [ timeout |-> OrDefault(options.timeout, DefaultTimeout),
      maxRetries |-> OrDefault(options.maxRetries, DefaultMaxRetries) ]

\* text is a sequence of one-character strings; JavaScript undefined for a
\* text-valued option
UndefinedText == <<"undefined">>

\* 'https://api.metriqual.com'
DefaultBaseUrl == <<"https://api.metriqual.com">>

\* largest number of `/` a configured base URL ends with
MaxSlashes == 2

RECURSIVE Slashes(_)
Slashes(n) == IF n = 0 THEN <<>> ELSE <<"/">> \o Slashes(n - 1)

\* the values of options.baseUrl
BaseUrlOptions ==
    {UndefinedText, <<>>} \cup { <<"h">> \o Slashes(n) : n \in 0..MaxSlashes }

\* text.replace(/\/$/, ''): one `/` at the end of the text is removed
StripTrailingSlash(text) ==
    IF text # <<>> /\ text[Len(text)] = "/"
    THEN SubSeq(text, 1, Len(text) - 1)
    ELSE text

\* (options.baseUrl || 'https://api.metriqual.com').replace(/\/$/, '')
NormalizeBaseUrl(text) ==
    StripTrailingSlash(IF text = UndefinedText \/ text = <<>> THEN DefaultBaseUrl ELSE text)

GlobalFetch == "globalThis.fetch"
CustomFetch == "options.fetch"

\* options.fetch || globalThis.fetch
FetchOrGlobal(f) == IF f = Undefined THEN GlobalFetch ELSE f

\* the options of `new HttpClient(options)` / `new MQL(options)`
FullOptions(text, apiKey, token, timeout, maxRetries, f) ==
    [baseUrl |-> text, apiKey |-> apiKey, token |-> token, timeout |-> timeout,
     maxRetries |-> maxRetries, fetch |-> f]

\* new HttpClient(options): the six fields of the client
NewHttpClient(o) ==
    [baseUrl |-> NormalizeBaseUrl(o.baseUrl),
     apiKey |-> o.apiKey,
     token |-> o.token,
     timeout |-> Constructor([maxRetries |-> o.maxRetries, timeout |-> o.timeout]).timeout,
     maxRetries |-> Constructor([maxRetries |-> o.maxRetries, timeout |-> o.timeout]).maxRetries,
     fetchFn |-> FetchOrGlobal(o.fetch)]

NoClient ==
    [baseUrl |-> <<>>, apiKey |-> Undefined, token |-> Undefined, timeout |-> 0,
     maxRetries |-> 0, fetchFn |-> "none"]

\* a ?? b on an optional string
Nullish(a, b) == IF a = Undefined THEN b ELSE a

\* updateAuth(options) on the client `this`
UpdateAuth(this, o) ==
    NewHttpClient(FullOptions(this.baseUrl, Nullish(o.apiKey, this.apiKey),
                              Nullish(o.token, this.token), this.timeout,
                              this.maxRetries, this.fetchFn))

\* getBaseUrl()
GetBaseUrl(this) == this.baseUrl

\* MQL.withAuth(auth) on the MQL whose httpClient is `this`: the httpClient of
\* the MQL it returns
WithAuth(this, o) ==
    NewHttpClient(FullOptions(GetBaseUrl(this), o.apiKey, o.token, UndefinedNum,
                              UndefinedNum, Undefined))

\* the number of retries the caller configured: the option, or its
\* documented default when the option is left out
ConfiguredMaxRetries(options) ==
    IF options.maxRetries = UndefinedNum THEN DefaultMaxRetries ELSE options.maxRetries

(***************************************************************************)
(* requestWithRetry: pure parts                                            *)
(***************************************************************************)
Pow2(k) == IF k <= 0 THEN 1 ELSE 2 ^ k

Min(a, b) == IF a < b THEN a ELSE b

\* variant: the backoff without its cap
RetryDelayStatusUncapped(retryCount) == BackoffBase * Pow2(retryCount)

\* Math.min(1000 * Math.pow(2, retryCount), 10000) on the 5xx path
RetryDelayStatus(retryCount) == Min(BackoffBase * Pow2(retryCount), BackoffCap)

\* Math.min(1000 * Math.pow(2, retryCount), 10000) on the network-error path
RetryDelayError(retryCount) == Min(BackoffBase * Pow2(retryCount), BackoffCap)

ResponseOk(status) == status >= 200 /\ status <= 299

\* variant: no fallback payload when the error body does not parse
ErrorBodyNoFallback(resp) == resp.body.json

\* response.json().catch(() => ({ error: response.statusText }))
ErrorBody(resp) ==
    IF resp.body.parses
    THEN resp.body.json
    ELSE [error |-> StatusText(resp.status), code |-> Undefined, details |-> Undefined]

\* variant: every error status is retried
ShouldRetryStatusAnyError(status, retryCount, maxRetries) ==
    status >= 400 /\ retryCount < maxRetries

ShouldRetryStatus(status, retryCount, maxRetries) ==
    status >= 500 /\ retryCount < maxRetries

\* variant: off-by-one in the retry budget
ShouldRetryErrorInclusive(retryCount, maxRetries) == retryCount <= maxRetries

ShouldRetryError(retryCount, maxRetries) == retryCount < maxRetries

\* variant: 204 is handled like any other 2xx
IsNoContentNever(status) == FALSE

IsNoContent(status) == status = 204

\* variant: the timeout cancellation is not told apart from a network error
IsAbortErrorNever(err) == FALSE

IsAbortError(err) == err.name = "AbortError"

\* variant: the timer is left armed after the response
ClearTimeoutOnResponseLeak(armed, id) == armed

\* clearTimeout(timeoutId) after the transport answered
ClearTimeoutOnResponse(armed, id) == { t \in armed : t.id # id }

\* variant: the timer is left armed when the attempt throws
ClearTimeoutOnErrorLeak(armed, id) == armed

\* clearTimeout(timeoutId) at the head of the catch block
ClearTimeoutOnError(armed, id) == { t \in armed : t.id # id }

\* variant: the timer callback never resolves the promise
SleepNeverResolves(ms) == FALSE

\* sleep(ms): new Promise(resolve => setTimeout(resolve, ms)) resolves once
\* its timer has fired, for every delay
SleepResolves(ms) == ms >= 0

\* setTimeout(() => controller.abort(), this.timeout): the timer of an
\* attempt holds that attempt's own controller
SetTimeout(armed, id, ms) == armed \cup {[id |-> id, controller |-> id, ms |-> ms]}

\* a step of the call: where it goes next, what it returned or raised, the
\* backoff delay it sleeps, and whether the catch block ran
Step(next, res, delay, caught) ==
    [next |-> next, result |-> res, delay |-> delay, caught |-> caught]

\* the catch block for a thrown value
CatchBlock(err, retryCount, maxRetries) ==
    IF err.type = "apierror"
    THEN Step("raised", Raised(err), 0, TRUE)
    ELSE IF err.type = "error"
    THEN IF IsAbortError(err)
         THEN Step("raised",
                   Raised(MQLAPIError("Request timeout", 408, Undefined, Undefined)),
                   0, TRUE)
         ELSE IF ShouldRetryError(retryCount, maxRetries)
         THEN Step("sleep", NoResult, RetryDelayError(retryCount), TRUE)
         ELSE Step("raised",
                   Raised(MQLAPIError(err.message, 0, Undefined, Undefined)),
                   0, TRUE)
    ELSE Step("raised",
              Raised(MQLAPIError("Unknown error occurred", 0, Undefined, Undefined)),
              0, TRUE)

\* whether the try block calls response.json() on this response
InvokesJson(resp) == ~ResponseOk(resp.status) \/ ~IsNoContent(resp.status)

\* the try block once the transport has answered with resp; what it throws
\* is handed to the catch block
TryBlock(resp, retryCount, maxRetries) ==
    IF ~ResponseOk(resp.status)
    THEN IF ShouldRetryStatus(resp.status, retryCount, maxRetries)
         THEN Step("sleep", NoResult, RetryDelayStatus(retryCount), FALSE)
         ELSE CatchBlock(FromResponse(ErrorBody(resp), resp.status), retryCount, maxRetries)
    ELSE IF IsNoContent(resp.status)
    THEN Step("returned", Returned(EmptyObject), 0, FALSE)
    ELSE IF resp.body.parses
    THEN Step("returned", Returned(resp.body.json), 0, FALSE)
    ELSE CatchBlock(SyntaxError, retryCount, maxRetries)

(***************************************************************************)
(* buildHeaders and buildUrl                                               *)
(***************************************************************************)
\* JavaScript truthiness of an optional string (apiKey, token)
Truthy(s) == s # Undefined /\ s # ""

\* the template literal `Bearer ${credential}`
Bearer(credential) == <<"Bearer", credential>>

\* Object.assign(target, source): the entries of source replace those of target
ObjectAssign(target, source) == source @@ target

\* the two headers every request starts from
DefaultHeaders ==
    ("Content-Type" :> <<"application/json">>) @@ ("Accept" :> <<"application/json">>)

\* variant: the key is assigned after the token
WithAuthorizationKeyLast(headers, apiKey, token) ==
    LET withToken == IF Truthy(token)
                     THEN ObjectAssign(headers, "Authorization" :> Bearer(token))
                     ELSE headers
    IN IF Truthy(apiKey)
       THEN ObjectAssign(withToken, "Authorization" :> Bearer(apiKey))
       ELSE withToken

\* headers['Authorization'] from the key, then from the token
WithAuthorization(headers, apiKey, token) ==
    LET withKey == IF Truthy(apiKey)
                   THEN ObjectAssign(headers, "Authorization" :> Bearer(apiKey))
                   ELSE headers
    IN IF Truthy(token)
       THEN ObjectAssign(withKey, "Authorization" :> Bearer(token))
       ELSE withKey

\* variant: the caller's headers are merged before the credential is set
BuildHeadersAuthLast(apiKey, token, additionalHeaders) ==
    WithAuthorization(ObjectAssign(DefaultHeaders, additionalHeaders), apiKey, token)

\* buildHeaders(additionalHeaders); an absent argument is the empty mapping
BuildHeaders(apiKey, token, additionalHeaders) ==
    ObjectAssign(WithAuthorization(DefaultHeaders, apiKey, token), additionalHeaders)

\* the headers stream() asks buildHeaders for: { ...headers, Accept: 'text/event-stream' }
StreamHeaders(headers) == ObjectAssign(headers, "Accept" :> <<"text/event-stream">>)

\* query parameter values: string | number | boolean | undefined
UndefinedValue == [t |-> "undefined", n |-> 0, b |-> FALSE, s |-> ""]
NumberValue(n) == [t |-> "number", n |-> n, b |-> FALSE, s |-> ""]
BooleanValue(b) == [t |-> "boolean", n |-> 0, b |-> b, s |-> ""]
StringValue(s) == [t |-> "string", n |-> 0, b |-> FALSE, s |-> s]

ParamValues ==
    {UndefinedValue, NumberValue(0), NumberValue(1), BooleanValue(FALSE),
     StringValue(""), StringValue("x")}

ParamKeys == {"a", "b", "c"}

\* String(value) of a defined parameter value
StringOf(value) ==
    CASE value.t = "number" -> (IF value.n = 0 THEN "0" ELSE "1")
      [] value.t = "boolean" -> (IF value.b THEN "true" ELSE "false")
      [] value.t = "string" -> value.s
      [] OTHER -> "undefined"

\* variant: a falsy value is dropped like an absent one
KeepsParamTruthy(value) ==
    /\ value.t # "undefined"
    /\ ~(value.t = "number" /\ value.n = 0)
    /\ ~(value.t = "boolean" /\ ~value.b)
    /\ ~(value.t = "string" /\ value.s = "")

\* value !== undefined
KeepsParam(value) == value.t # "undefined"

\* Object.entries(params).forEach(... url.searchParams.append(key, String(value)))
\* params is the mapping in insertion order: a sequence of <<key, value>>
RECURSIVE AppendParams(_, _)
AppendParams(search, params) ==
    IF params = <<>>
    THEN search
    ELSE LET entry == Head(params)
         IN AppendParams(
               IF KeepsParam(entry[2])
               THEN Append(search, <<entry[1], StringOf(entry[2])>>)
               ELSE search,
               Tail(params))

\* url.toString() of the search pairs: k=v joined by &, as a token sequence
RECURSIVE SearchString(_)
SearchString(search) ==
    IF search = <<>>
    THEN <<>>
    ELSE <<search[1][1], "=", search[1][2]>>
         \o (IF Len(search) > 1 THEN <<"&">> ELSE <<>>)
         \o SearchString(Tail(search))

\* buildUrl(path, params): the path, the ordered search pairs and the
\* string url.toString() returns (as tokens)
BuildUrl(path, params) ==
    LET search == AppendParams(<<>>, params)
    IN [path |-> path, search |-> search,
        href |-> <<path>> \o (IF search = <<>> THEN <<>> ELSE <<"?">> \o SearchString(search))]

\* body ? JSON.stringify(body) : undefined
SerializeBody(body) == IF body = Undefined THEN <<>> ELSE <<"JSON", body>>

\* the mappings in insertion order over at most all the keys
RECURSIVE ParamSeqs(_)
ParamSeqs(keys) ==
    {<<>>} \cup
    UNION { { <<<<k, v>>>> \o rest : v \in ParamValues, rest \in ParamSeqs(keys \ {k}) } :
            k \in keys }

\* the additional headers a caller passes
CallerHeaders ==
    LET auth == {<<>>, <<"Authorization", <<"Bearer", "caller-token">>>>}
        accept == {<<>>, <<"Accept", <<"text/plain">>>>}
        trace == {<<>>, <<"X-Trace", <<"1">>>>}
        One(e) == IF e = <<>> THEN <<>> ELSE e[1] :> e[2]
    IN { One(a) @@ One(c) @@ One(x) : a \in auth, c \in accept, x \in trace }

Credentials == [apiKey : {Undefined, "", "proxy-key"}, token : {Undefined, "", "jwt"}]

RequestBodies == {Undefined, "chat-request"}

\* the path and the options argument of requestWithRetry
Arguments(path, body, params, headers, retryCount) ==
    [path |-> path, body |-> body, params |-> params, headers |-> headers,
     retryCount |-> retryCount]

NoArguments == Arguments("", Undefined, <<>>, <<>>, 0)

\* variant: the retry passes on the counter only
RetryOptionsOnlyCount(args, retryCount) ==
    Arguments(args.path, Undefined, <<>>, <<>>, retryCount + 1)

\* { ...options, retryCount: retryCount + 1 } with the same path
RetryOptions(args, retryCount) == [args EXCEPT !.retryCount = retryCount + 1]

NoRequest ==
    [kind |-> "none", method |-> "", url |-> BuildUrl("", <<>>), headers |-> <<>>,
     body |-> <<>>, params |-> <<>>, additional |-> <<>>]

(***************************************************************************)
(* stream: decoding of the event-stream text                               *)
(***************************************************************************)
\* text is a sequence of one-character strings
Newline == "\n"

\* the literal 'data: '
DataPrefix == <<"d", "a", "t", "a", ":", " ">>

\* the literal '[DONE]'
DoneSentinel == <<"[", "D", "O", "N", "E", "]">>

\* the 6 of line.slice(6)
PrefixLength == 6

\* text.split('\n') from position i on, cur being the piece under construction
RECURSIVE SplitFrom(_, _, _)
SplitFrom(text, i, cur) ==
    IF i > Len(text)
    THEN <<cur>>
    ELSE IF text[i] = Newline
    THEN <<cur>> \o SplitFrom(text, i + 1, <<>>)
    ELSE SplitFrom(text, i + 1, Append(cur, text[i]))

\* buffer.split('\n')
SplitLines(text) == SplitFrom(text, 1, <<>>)

\* lines after lines.pop()
PoppedLines(lines) == SubSeq(lines, 1, Len(lines) - 1)

\* variant: the partial line at the end of a chunk is not kept
PoppedBufferDropped(lines) == <<>>

\* lines.pop() || ''
PoppedBuffer(lines) == lines[Len(lines)]

\* line.startsWith(prefix)
StartsWith(line, prefix) ==
    Len(line) >= Len(prefix) /\ SubSeq(line, 1, Len(prefix)) = prefix

\* line.slice(n)
Slice(line, n) == SubSeq(line, n + 1, Len(line))

\* variant: the sentinel is not recognised
IsDoneNever(data) == FALSE

\* data === '[DONE]'
IsDone(data) == data = DoneSentinel

\* variant: the loop stops scanning at the first line that is not a data line
RECURSIVE DrainLinesStopAtOther(_)
DrainLinesStopAtOther(lines) ==
    IF lines = <<>>
    THEN [kind |-> "read", data |-> <<>>, rest |-> <<>>]
    ELSE IF StartsWith(Head(lines), DataPrefix)
    THEN IF IsDone(Slice(Head(lines), PrefixLength))
         THEN [kind |-> "return", data |-> <<>>, rest |-> <<>>]
         ELSE [kind |-> "yield", data |-> Slice(Head(lines), PrefixLength),
               rest |-> Tail(lines)]
    ELSE [kind |-> "read", data |-> <<>>, rest |-> Tail(lines)]

\* for (const line of lines) { ... } from the current line on: the loop
\* suspends at a yield, returns at the sentinel, or runs out of lines and goes
\* back to reader.read()
RECURSIVE DrainLines(_)
DrainLines(lines) ==
    IF lines = <<>>
    THEN [kind |-> "read", data |-> <<>>, rest |-> <<>>]
    ELSE IF StartsWith(Head(lines), DataPrefix)
    THEN IF IsDone(Slice(Head(lines), PrefixLength))
         THEN [kind |-> "return", data |-> <<>>, rest |-> <<>>]
         ELSE [kind |-> "yield", data |-> Slice(Head(lines), PrefixLength),
               rest |-> Tail(lines)]
    ELSE DrainLines(Tail(lines))

\* variant: the remaining buffer is dropped when the byte stream ends
FlushBufferDropped(buffer) == [kind |-> "return", data |-> <<>>, rest |-> <<>>]

\* "Process remaining buffer" after the read loop
FlushBuffer(buffer) ==
    IF StartsWith(buffer, DataPrefix) /\ ~IsDone(Slice(buffer, PrefixLength))
    THEN [kind |-> "yield", data |-> Slice(buffer, PrefixLength), rest |-> <<>>]
    ELSE [kind |-> "return", data |-> <<>>, rest |-> <<>>]

\* variant: the reader is released only when the generator runs to its end
FinallyOnNormalEnd(path, released) ==
    IF path \in {"end", "sentinel"} THEN released + 1 ELSE released

\* finally { reader.releaseLock() }: runs on every exit of the try block
Finally(path, released) == released + 1

(***************************************************************************)
(* stream: the bodies a server sends                                       *)
(***************************************************************************)
\* number of newline-terminated lines of a body
MaxLines == 2

LineX == DataPrefix \o <<"x">>
LineY == DataPrefix \o <<"y">>
LineDone == DataPrefix \o DoneSentinel
LineSet == {LineX, LineY, LineDone, DataPrefix, <<"x">>, <<>>}

RECURSIVE TerminatedLines(_)
TerminatedLines(n) ==
    IF n = 0
    THEN {<<>>}
    ELSE TerminatedLines(n - 1) \cup
         { t \o l \o <<Newline>> : t \in TerminatedLines(n - 1), l \in LineSet }

\* up to MaxLines terminated lines followed by an unterminated last line
StreamTexts == { t \o l : t \in TerminatedLines(MaxLines), l \in LineSet }

\* the lengths of the chunks reader.read() delivers (or all that is left)
ChunkSizes == {1, 14}

\* responses to the initial request of a stream: an error response with its
\* payload, or a 2xx response
StreamResponses == { r \in Responses : ~ResponseOk(r.status) \/ r.body = NoBody }

StreamOptionSets ==
    { o \in OptionSets : o.timeout = UndefinedNum /\ o.maxRetries = UndefinedNum }

(***************************************************************************)
(* VideoAPI: job statuses                                                  *)
(***************************************************************************)
\* a VideoGenerationResponse: its id, its status and error?.message
VideoStatus(id, status, message) == [id |-> id, status |-> status, message |-> message]

NoStatus == VideoStatus("none", "none", Undefined)

VideoStates == {"queued", "in_progress", "completed", "failed"}

\* what getStatus(id) resolves with
StatusesOf(id) ==
    { VideoStatus(id, st, Undefined) : st \in VideoStates } \cup
    { VideoStatus(id, "failed", "content policy") }

\* new Error(message)
ErrorOf(message) ==
    [type |-> "error", status |-> 0, body |-> NoBody, name |-> "Error", message |-> message]

\* `Video generation failed: ${status.error?.message || 'Unknown error'}`
FailedMessage(status) ==
    <<"Video generation failed: ",
      IF Truthy(status.message) THEN status.message ELSE "Unknown error">>

\* `Video generation timed out after ${maxWait}ms`
TimedOutMessage(maxWait) == <<"Video generation timed out after ", maxWait, "ms">>

DefaultPollInterval == 5000
DefaultMaxWait == 600000

\* a ?? b on an optional number
NullishNum(a, b) == IF a = UndefinedNum THEN b ELSE a

\* options?.pollIntervalMs ?? 5000
PollInterval(o) == NullishNum(o.pollIntervalMs, DefaultPollInterval)

\* options?.maxWaitMs ?? 600000
MaxWait(o) == NullishNum(o.maxWaitMs, DefaultMaxWait)

\* variant: every status that is not `failed` is returned
PollDecisionReturnsUnfailed(status) ==
    IF status.status = "failed" THEN "throw" ELSE "return"

\* what the loop body does with a polled status
PollDecision(status) ==
    IF status.status = "completed" THEN "return"
    ELSE IF status.status = "failed" THEN "throw"
    ELSE "continue"

\* Date.now() - startTime < maxWait
WithinMaxWait(elapsed, maxWait) == elapsed < maxWait

(***************************************************************************)
(* State                                                                   *)
(***************************************************************************)
VARIABLES
    options,      \* the MQLClientOptions the client was constructed from
    client,       \* the HttpClient's fields (timeout, maxRetries)
    pc,           \* position of the buffered call
    method,       \* HTTP method of the call
    retryCount,   \* options.retryCount of the running invocation
    fetchCalls,   \* number of invocations of fetchFn by this call
    timers,       \* armed timeout timers
    inFlight,     \* attempts whose fetchFn promise is pending
    aborted,      \* controllers whose signal has been aborted
    last,         \* how the latest attempt ended
    jsonInvoked,  \* whether response.json() was called on the latest response
    seen,         \* classes of the outcomes of this call's attempts
    delays,       \* the delays this call has slept, in order
    result,       \* what the call returned or raised
    auth,         \* the HttpClient's apiKey and token fields
    req,          \* the latest request handed to fetchFn
    spc,          \* position of the stream() generator
    resume,       \* the yield the generator is suspended at
    pending,      \* whether a consumer pull (next()) awaits its result
    sFetchCalls,  \* invocations of fetchFn by stream()
    sResp,        \* the response to the stream's initial request
    whole,        \* the text of the response body
    pos,          \* how much of the body the reader has delivered
    buffer,       \* the partial line kept between reads
    lines,        \* the lines of the current chunk not yet looked at
    yielded,      \* the payloads yielded so far
    reads,        \* calls of reader.read()
    acquired,     \* calls of response.body.getReader()
    released,     \* calls of reader.releaseLock()
    ended,        \* whether reader.read() has reported done
    sResult,      \* how the generator ended
    cfg,          \* baseUrl, apiKey, token and fetch of the constructor's options
    baseUrl,      \* the HttpClient's baseUrl field
    fetchFn,      \* the HttpClient's fetchFn field
    derived,      \* the HttpClient returned by updateAuth
    derivedMql,   \* the httpClient of the MQL returned by withAuth
    callArgs,     \* path and options argument of the running requestWithRetry
    sent,         \* what each attempt of the call handed to fetchFn, in order
    chatOpts,     \* which callbacks the StreamOptions of ChatAPI.stream hold
    feed,         \* the payloads the underlying client.stream() yields, in order
    innerEnd,     \* how the underlying stream ends after them
    taken,        \* how many payloads the for-await loop has received
    innerState,   \* state of the underlying generator
    cpc,          \* position of the ChatAPI.stream generator
    fullContent,  \* the accumulated delta contents
    cYielded,     \* the chunks yielded to the consumer
    chunkCalls,   \* the chunks onChunk was called with
    completeCalls,\* the arguments onComplete was called with
    errorCalls,   \* the arguments onError was called with
    cResult,      \* how the ChatAPI.stream generator ended
    vOpts,        \* the options of VideoAPI.createAndWait
    vpc,          \* position of createAndWait
    now,          \* Date.now() - startTime
    checkedAt,    \* Date.now() - startTime at the latest test of the loop condition
    vJob,         \* the id of the job the create call returned
    vPolls,       \* the video ids getStatus was called with, in order
    vLast,        \* the latest status a poll returned
    vResult       \* what createAndWait returned or raised

bufferedVars == <<options, client, pc, method, retryCount, fetchCalls, timers, inFlight,
                  aborted, last, jsonInvoked, seen, delays, result>>

requestVars == <<auth, req>>

streamVars == <<spc, resume, pending, sFetchCalls, sResp, whole, pos, buffer, lines,
                yielded, reads, acquired, released, ended, sResult>>

configVars == <<cfg, baseUrl, fetchFn, derived, derivedMql>>

attemptVars == <<callArgs, sent>>

chatVars == <<chatOpts, feed, innerEnd, taken, innerState, cpc, fullContent, cYielded,
              chunkCalls, completeCalls, errorCalls, cResult>>

videoVars == <<vOpts, vpc, now, checkedAt, vJob, vPolls, vLast, vResult>>

apiVars == <<configVars, attemptVars, chatVars, videoVars>>

vars == <<bufferedVars, requestVars, streamVars, apiVars>>

\* the client was constructed without baseUrl and fetch, and no client has
\* been derived from it
ConfigIdle ==
    /\ cfg = [baseUrl |-> UndefinedText, apiKey |-> auth.apiKey, token |-> auth.token,
              fetch |-> Undefined]
    /\ baseUrl = NormalizeBaseUrl(UndefinedText)
    /\ fetchFn = FetchOrGlobal(Undefined)
    /\ derived = NoClient
    /\ derivedMql = NoClient

\* no call with recorded arguments is running
AttemptIdle ==
    /\ callArgs = NoArguments
    /\ sent = <<>>

\* no ChatAPI.stream generator has been created
ChatIdle ==
    /\ chatOpts = [onChunk |-> FALSE, onComplete |-> FALSE, onError |-> FALSE]
    /\ feed = <<>>
    /\ innerEnd = NoOutcome
    /\ taken = 0
    /\ innerState = "none"
    /\ cpc = "idle"
    /\ fullContent = <<>>
    /\ cYielded = <<>>
    /\ chunkCalls = <<>>
    /\ completeCalls = <<>>
    /\ errorCalls = <<>>
    /\ cResult = NoResult

\* createAndWait has not been called
VideoIdle ==
    /\ vOpts = [pollIntervalMs |-> UndefinedNum, maxWaitMs |-> UndefinedNum]
    /\ vpc = "idle"
    /\ now = 0
    /\ checkedAt = 0
    /\ vJob = "none"
    /\ vPolls = <<>>
    /\ vLast = NoStatus
    /\ vResult = NoResult

ApiIdle == ConfigIdle /\ AttemptIdle /\ ChatIdle /\ VideoIdle

\* no stream() generator has been created
StreamIdle ==
    /\ spc = "idle"
    /\ resume = "none"
    /\ pending = FALSE
    /\ sFetchCalls = 0
    /\ sResp = NoOutcome
    /\ whole = <<>>
    /\ pos = 0
    /\ buffer = <<>>
    /\ lines = <<>>
    /\ yielded = <<>>
    /\ reads = 0
    /\ acquired = 0
    /\ released = 0
    /\ ended = FALSE
    /\ sResult = NoResult

\* no request has been built
RequestIdle ==
    /\ auth = [apiKey |-> Undefined, token |-> Undefined]
    /\ req = NoRequest

Init ==
    /\ options \in OptionSets
    /\ client = Constructor(options)
    /\ pc = "idle"
    /\ method = "GET"
    /\ retryCount = 0
    /\ fetchCalls = 0
    /\ timers = {}
    /\ inFlight = {}
    /\ aborted = {}
    /\ last = NoOutcome
    /\ jsonInvoked = FALSE
    /\ seen = {}
    /\ delays = <<>>
    /\ result = NoResult
    /\ RequestIdle
    /\ StreamIdle
    /\ ApiIdle

(***************************************************************************)
(* Actions                                                                 *)
(***************************************************************************)
\* requestWithRetry up to `await this.fetchFn(...)`: arm the timer of the
\* attempt and invoke the transport
StartAttempt(k, calls) ==
    /\ retryCount' = k
    /\ timers' = SetTimeout(timers, k, client.timeout)
    /\ inFlight' = inFlight \cup {k}
    /\ fetchCalls' = calls + 1
    /\ pc' = "fetch"

\* get / post / put / patch / delete
Call ==
    /\ pc \in {"idle", "returned", "raised"}
    /\ \E m \in Methods : method' = m
    /\ StartAttempt(0, 0)
    /\ aborted' = {}
    /\ last' = NoOutcome
    /\ jsonInvoked' = FALSE
    /\ seen' = {}
    /\ delays' = <<>>
    /\ result' = NoResult
    /\ UNCHANGED <<options, client>>
    /\ UNCHANGED <<requestVars, streamVars, apiVars>>

\* what the call does once the try or catch block has decided `step`
Continue(step) ==
    /\ pc' = step.next
    /\ result' = step.result
    /\ delays' = IF step.next = "sleep" THEN Append(delays, step.delay) ELSE delays

\* the transport answers the pending attempt with a response
FetchResponds ==
    /\ pc = "fetch"
    /\ retryCount \in inFlight
    /\ retryCount \notin aborted
    /\ \E resp \in Responses :
        /\ inFlight' = inFlight \ {retryCount}
        /\ last' = resp
        /\ seen' = seen \cup {OutcomeClass(resp)}
        /\ jsonInvoked' = InvokesJson(resp)
        /\ timers' =
             LET cleared == ClearTimeoutOnResponse(timers, retryCount)
             IN IF TryBlock(resp, retryCount, client.maxRetries).caught
                THEN ClearTimeoutOnError(cleared, retryCount)
                ELSE cleared
        /\ Continue(TryBlock(resp, retryCount, client.maxRetries))
    /\ UNCHANGED <<options, client, method, retryCount, fetchCalls, aborted>>
    /\ UNCHANGED <<requestVars, streamVars, apiVars>>

\* the transport throws for a reason other than the abort signal
FetchThrows ==
    /\ pc = "fetch"
    /\ retryCount \in inFlight
    /\ retryCount \notin aborted
    /\ \E err \in NetworkErrors \cup {NonErrorThrow} :
        /\ inFlight' = inFlight \ {retryCount}
        /\ last' = err
        /\ seen' = seen \cup {OutcomeClass(err)}
        /\ timers' = ClearTimeoutOnError(timers, retryCount)
        /\ Continue(CatchBlock(err, retryCount, client.maxRetries))
    /\ UNCHANGED <<options, client, method, retryCount, fetchCalls, aborted, jsonInvoked>>
    /\ UNCHANGED <<requestVars, streamVars, apiVars>>

\* an armed timer fires: () => controller.abort()
TimeoutFires ==
    /\ \E t \in timers :
        /\ timers' = timers \ {t}
        /\ aborted' = aborted \cup {t.controller}
    /\ UNCHANGED <<options, client, pc, method, retryCount, fetchCalls, inFlight,
                   last, jsonInvoked, seen, delays, result>>
    /\ UNCHANGED <<requestVars, streamVars, apiVars>>

\* the pending transport invocation rejects because its signal was aborted
FetchAborts ==
    /\ pc = "fetch"
    /\ retryCount \in inFlight
    /\ retryCount \in aborted
    /\ inFlight' = inFlight \ {retryCount}
    /\ last' = AbortError
    /\ seen' = seen \cup {OutcomeClass(AbortError)}
    /\ timers' = ClearTimeoutOnError(timers, retryCount)
    /\ Continue(CatchBlock(AbortError, retryCount, client.maxRetries))
    /\ UNCHANGED <<options, client, method, retryCount, fetchCalls, aborted, jsonInvoked>>
    /\ UNCHANGED <<requestVars, streamVars, apiVars>>

\* the backoff sleep resolves and requestWithRetry re-invokes itself with
\* retryCount + 1
SleepElapses ==
    /\ pc = "sleep"
    /\ SleepResolves(delays[Len(delays)])
    /\ StartAttempt(retryCount + 1, fetchCalls)
    /\ UNCHANGED <<options, client, method, aborted, last, jsonInvoked, seen,
                   delays, result>>
    /\ UNCHANGED <<requestVars, streamVars, apiVars>>

Next ==
    \/ Call
    \/ FetchResponds
    \/ FetchThrows
    \/ TimeoutFires
    \/ FetchAborts
    \/ SleepElapses

Spec == Init /\ [][Next]_vars

(***************************************************************************)
(* Request construction: what each operation hands to fetchFn              *)
(***************************************************************************)
\* the buffered calls are idle while requests are built
BufferedIdle ==
    /\ options = [maxRetries |-> UndefinedNum, timeout |-> UndefinedNum]
    /\ client = Constructor(options)
    /\ pc = "idle"
    /\ method = "GET"
    /\ retryCount = 0
    /\ fetchCalls = 0
    /\ timers = {}
    /\ inFlight = {}
    /\ aborted = {}
    /\ last = NoOutcome
    /\ jsonInvoked = FALSE
    /\ seen = {}
    /\ delays = <<>>
    /\ result = NoResult

InitRequest ==
    /\ BufferedIdle
    /\ StreamIdle
    /\ auth \in Credentials
    /\ req = NoRequest
    /\ ApiIdle

\* the fetchFn arguments of requestWithRetry(method, path, { body, params, headers })
BufferedRequest(m, path, body, params, headers) ==
    [kind |-> "buffered", method |-> m, url |-> BuildUrl(path, params),
     headers |-> BuildHeaders(auth.apiKey, auth.token, headers),
     body |-> SerializeBody(body), params |-> params, additional |-> headers]

\* get(path, params, headers)
BuildGet ==
    /\ req.kind = "none"
    /\ \E params \in ParamSeqs(ParamKeys), headers \in CallerHeaders :
          req' = BufferedRequest("GET", "/v1/models", Undefined, params, headers)
    /\ UNCHANGED <<bufferedVars, auth, streamVars, apiVars>>

\* post / put / patch (path, body, headers)
BuildWithBody ==
    /\ req.kind = "none"
    /\ \E m \in {"POST", "PUT", "PATCH"}, body \in RequestBodies, headers \in CallerHeaders :
          req' = BufferedRequest(m, "/v1/chat/completions", body, <<>>, headers)
    /\ UNCHANGED <<bufferedVars, auth, streamVars, apiVars>>

\* delete(path, headers)
BuildDelete ==
    /\ req.kind = "none"
    /\ \E headers \in CallerHeaders :
          req' = BufferedRequest("DELETE", "/v1/filters/1", Undefined, <<>>, headers)
    /\ UNCHANGED <<bufferedVars, auth, streamVars, apiVars>>

\* the fetchFn arguments of stream(path, body, headers, signal)
BuildStream ==
    /\ req.kind = "none"
    /\ \E body \in RequestBodies, headers \in CallerHeaders :
          req' = [kind |-> "stream", method |-> "POST",
                  url |-> BuildUrl("/v1/chat/completions", <<>>),
                  headers |-> BuildHeaders(auth.apiKey, auth.token, StreamHeaders(headers)),
                  body |-> <<"JSON", body>>, params |-> <<>>, additional |-> headers]
    /\ UNCHANGED <<bufferedVars, auth, streamVars, apiVars>>

NextRequest ==
    \/ BuildGet
    \/ BuildWithBody
    \/ BuildDelete
    \/ BuildStream

SpecRequest == InitRequest /\ [][NextRequest]_vars

(***************************************************************************)
(* Properties                                                              *)
(***************************************************************************)
Done == pc \in {"returned", "raised"}

Is5xxClass(c) == c.type = "response" /\ c.status >= 500
IsNetworkClass(c) == c.type = "error" /\ c.name = "TypeError"

\* every attempt of the call so far was answered with status 500
AllAnswered500 ==
    seen # {} /\ \A c \in seen : c.type = "response" /\ c.status = 500

\* every attempt of the call so far ended with a network exception
AllThrewNetwork == seen # {} /\ \A c \in seen : IsNetworkClass(c)

\* every attempt of the call so far was answered with a non-2xx status below 500
AllAnsweredBelow500 ==
    seen # {} /\ \A c \in seen :
        c.type = "response" /\ ~(c.status >= 200 /\ c.status <= 299) /\ c.status < 500

\* the error payload of the latest response: its JSON, or the status text
LastPayload ==
    IF last.body.parses
    THEN last.body.json
    ELSE [error |-> StatusText(last.status), code |-> Undefined, details |-> Undefined]

\* C1: with maxRetries configured as N >= 0 (N = 0 included) and a transport
\* that answers every attempt with status 500, the call invokes the transport
\* exactly N + 1 times and then raises an APIError with status 500 and the
\* message, code and details of the parsed 500 payload.
C1_Always500ExactlyNPlus1 ==
    (AllAnswered500 /\ pc # "fetch") =>
        /\ fetchCalls <= ConfiguredMaxRetries(options) + 1
        /\ pc = "raised" <=> fetchCalls = ConfiguredMaxRetries(options) + 1
        /\ pc # "returned"
        /\ pc = "raised" =>
             result = Raised(MQLAPIError(LastPayload.error, 500, LastPayload.code,
                                         LastPayload.details))

\* C2: with maxRetries configured as N >= 0 and a transport that throws a
\* non-timeout network exception on every attempt, the call invokes the
\* transport exactly N + 1 times and then raises an APIError with status 0 and
\* the message of the underlying exception.
C2_AlwaysThrowsExactlyNPlus1 ==
    (AllThrewNetwork /\ pc # "fetch") =>
        /\ fetchCalls <= ConfiguredMaxRetries(options) + 1
        /\ pc = "raised" <=> fetchCalls = ConfiguredMaxRetries(options) + 1
        /\ pc # "returned"
        /\ pc = "raised" =>
             /\ result.error.status = 0
             /\ result.error.message = last.message

\* C3: a call whose first response has a non-2xx status below 500 invokes the
\* transport exactly once and raises an APIError with that status and the code
\* of the error payload; it is not retried, whatever maxRetries is.
C3_ClientErrorNeverRetried ==
    (AllAnsweredBelow500 /\ pc # "fetch") =>
        /\ pc = "raised"
        /\ fetchCalls = 1
        /\ retryCount = 0
        /\ delays = <<>>
        /\ result.kind = "error"
        /\ result.error.status = last.status
        /\ result.error.code = LastPayload.code

C3_Witness ==
    /\ pc = "raised"
    /\ last.type = "response"
    /\ last.status = 404
    /\ last.body.parses
    /\ client.maxRetries >= 1
    /\ fetchCalls = 1
    /\ result.error.code = "NOT_FOUND"

\* C4: a further attempt is started only after an attempt that ended with a
\* response of status >= 500 or with a transport exception other than the
\* timeout cancellation; an attempt answered with a 2xx response, whatever its
\* body, is never followed by another attempt.
C4_RetryOnlyAfter5xxOrNetwork ==
    [][ (fetchCalls' = fetchCalls + 1 /\ retryCount' = retryCount + 1) =>
          \/ last.type = "response" /\ last.status >= 500
          \/ last.type \in {"error", "nonerror"} /\ last.name # "AbortError" ]_vars

C6_TimeoutRaises408NoRetry ==
    aborted # {} =>
        /\ aborted = {retryCount}
        /\ pc \in {"fetch", "raised"}
        /\ pc = "fetch" => retryCount \in inFlight
        /\ pc = "raised" =>
             /\ result.kind = "error"
             /\ result.error.status = 408
             /\ result.error.message = "Request timeout"

C6_Witness ==
    /\ pc = "raised"
    /\ aborted = {retryCount}
    /\ retryCount >= 1
    /\ retryCount < client.maxRetries
    /\ result.error.status = 408
    /\ fetchCalls = retryCount + 1

\* the delay the backoff policy prescribes after attempt k
ExpectedDelay(k) ==
    CASE k = 0 -> 1000
      [] k = 1 -> 2000
      [] k = 2 -> 4000
      [] k = 3 -> 8000
      [] OTHER -> 10000

\* C7: the delay slept before the retry that follows attempt k is
\* min(1000 * 2^k, 10000) ms on the 5xx path and on the network-exception
\* path: 1000, 2000, 4000, 8000 for k = 0..3 and 10000 for every k >= 4.
C7_BackoffDelays ==
    /\ \A i \in 1..Len(delays) : delays[i] = ExpectedDelay(i - 1)
    /\ Len(delays) = IF pc = "sleep" THEN retryCount + 1 ELSE retryCount

C7_Witness ==
    /\ pc = "sleep"
    /\ retryCount >= 4
    /\ delays[retryCount + 1] = 10000
    /\ last.type = "response"
    /\ last.status >= 500
    /\ \E c \in seen : IsNetworkClass(c)

\* C8: the attempts of one call are strictly sequential: attempt k+1 invokes
\* the transport only after attempt k's invocation has completed, its timer
\* has been cancelled, its outcome has been classified as retryable and the
\* backoff delay has been slept; two attempts are never in flight at once.
C8_AttemptsSequential ==
    /\ [](Cardinality(inFlight) <= 1)
    /\ [][ (fetchCalls' = fetchCalls + 1 /\ retryCount' = retryCount + 1) =>
             /\ inFlight = {}
             /\ last # NoOutcome
             /\ \A t \in timers : t.id # retryCount
             /\ pc = "sleep"
             /\ Len(delays) = retryCount + 1
             /\ inFlight' = {retryCount + 1} ]_vars

C8_Witness ==
    /\ pc = "fetch"
    /\ retryCount >= 2
    /\ inFlight = {retryCount}
    /\ fetchCalls = retryCount + 1
    /\ Len(delays) = retryCount

\* C9: a timeout timer can abort only its own attempt: at most one timer of a
\* call is armed at any moment, no timer is armed while the call sleeps in
\* backoff or after it has returned or raised, and the timer of attempt k
\* never aborts the signal of attempt k+1.
C9_TimerBoundToAttempt ==
    /\ Cardinality(timers) <= 1
    /\ pc \in {"sleep", "returned", "raised"} => timers = {}
    /\ \A t \in timers : t.id = retryCount /\ t.controller = t.id
    /\ \A c \in aborted : c = retryCount /\ (\A t \in timers : t.id # c)

C9_Witness ==
    /\ pc = "fetch"
    /\ retryCount >= 1
    /\ aborted = {retryCount}
    /\ timers = {}
    /\ inFlight = {retryCount}

\* C10: a response with status 204 makes the call return an empty object
\* without invoking the response's JSON parse; for any other 2xx status the
\* returned value is the parsed JSON body of that response.
C10_NoContentAndParsedBody ==
    /\ (last.type = "response" /\ last.status = 204) =>
          /\ pc = "returned"
          /\ result = Returned(EmptyObject)
          /\ ~jsonInvoked
    /\ pc = "returned" =>
          /\ last.type = "response"
          /\ last.status >= 200 /\ last.status <= 299
          /\ last.status # 204 =>
               /\ jsonInvoked
               /\ last.body.parses
               /\ result = Returned(last.body.json)

C10_Witness ==
    /\ pc = "returned"
    /\ last.status = 204
    /\ last.body.parses
    /\ result = Returned(EmptyObject)
    /\ ~jsonInvoked

(***************************************************************************)
(* Properties of request construction                                      *)
(***************************************************************************)
\* a credential the client was given: a non-empty string
IsSet(credential) == credential # Undefined /\ credential # ""

CallerSetsAuthorization == "Authorization" \in DOMAIN req.additional

\* C16: a request (buffered or streaming) for which the caller supplies no
\* Authorization header carries the Authorization header `Bearer <token>` when
\* both a key and a token are configured, and `Bearer <key>` when only a key is.
C16_TokenWinsOverKey ==
    (req.kind # "none" /\ ~CallerSetsAuthorization) =>
        /\ (IsSet(auth.apiKey) /\ IsSet(auth.token)) =>
              /\ "Authorization" \in DOMAIN req.headers
              /\ req.headers["Authorization"] = <<"Bearer", auth.token>>
        /\ (IsSet(auth.apiKey) /\ ~IsSet(auth.token)) =>
              /\ "Authorization" \in DOMAIN req.headers
              /\ req.headers["Authorization"] = <<"Bearer", auth.apiKey>>

C16_Witness ==
    /\ req.kind = "stream"
    /\ ~CallerSetsAuthorization
    /\ auth.apiKey = "proxy-key"
    /\ auth.token = "jwt"
    /\ req.headers["Authorization"] = <<"Bearer", "jwt">>

SentText(value) ==
    CASE value = NumberValue(0) -> "0"
      [] value = NumberValue(1) -> "1"
      [] value = BooleanValue(FALSE) -> "false"
      [] value = StringValue("") -> ""
      [] value = StringValue("x") -> "x"

DefinedParams == SelectSeq(req.params, LAMBDA e : e[2] # UndefinedValue)

\* C18: the URL of a buffered GET holds one key=value pair per query parameter
\* whose value is not undefined, in insertion order, and no occurrence of a key
\* whose value is undefined; 0, false and the empty string are kept.
C18_QueryParameters ==
    (req.kind = "buffered" /\ req.method = "GET") =>
        /\ Len(req.url.search) = Len(DefinedParams)
        /\ \A i \in 1..Len(DefinedParams) :
              req.url.search[i] = <<DefinedParams[i][1], SentText(DefinedParams[i][2])>>
        /\ \A i \in 1..Len(req.params) :
              req.params[i][2] = UndefinedValue =>
                  \A j \in 1..Len(req.url.href) : req.url.href[j] # req.params[i][1]
        /\ \A i \in 1..Len(DefinedParams) :
              \E j \in 1..Len(req.url.href) - 2 :
                  /\ req.url.href[j] = DefinedParams[i][1]
                  /\ req.url.href[j + 1] = "="
                  /\ req.url.href[j + 2] = SentText(DefinedParams[i][2])

C18_Witness ==
    /\ req.kind = "buffered"
    /\ req.method = "GET"
    /\ req.params = <<<<"a", NumberValue(1)>>, <<"b", UndefinedValue>>,
                      <<"c", StringValue("x")>>>>
    /\ req.url.href = <<"/v1/models", "?", "a", "=", "1", "&", "c", "=", "x">>

\* C20: the status of the APIError a buffered call raises classifies the
\* failure: 0 only if the final attempt obtained no HTTP response (the
\* transport threw), 408 with message "Request timeout" only if the attempt's
\* own timer fired, and otherwise the HTTP status of a response received.
C20_StatusClassifiesFailure ==
    pc = "raised" =>
        /\ result.error.status = 0 => last.type \in {"error", "nonerror"}
        /\ (result.error.status = 408 /\ result.error.message = "Request timeout") =>
              retryCount \in aborted
        /\ result.error.status \notin {0, 408} =>
              (last.type = "response" /\ result.error.status = last.status)

(***************************************************************************)
(* stream(): the async generator and its consumer                          *)
(***************************************************************************)
InitStream ==
    /\ options \in StreamOptionSets
    /\ client = Constructor(options)
    /\ pc = "idle"
    /\ method = "GET"
    /\ retryCount = 0
    /\ fetchCalls = 0
    /\ timers = {}
    /\ inFlight = {}
    /\ aborted = {}
    /\ last = NoOutcome
    /\ jsonInvoked = FALSE
    /\ seen = {}
    /\ delays = <<>>
    /\ result = NoResult
    /\ RequestIdle
    /\ StreamIdle
    /\ ApiIdle

\* the error a consumer throws into the generator
ConsumerError ==
    [type |-> "error", status |-> 0, body |-> NoBody, name |-> "Error", message |-> "stop"]

\* the generator leaves the try block on `path`: the finally block runs and
\* the generator completes with `res`
Exit(path, res) ==
    /\ spc' = "done"
    /\ resume' = "none"
    /\ pending' = FALSE
    /\ released' = Finally(path, released)
    /\ sResult' = res

\* the generator completes before the try block was entered
ExitBeforeTry(res) ==
    /\ spc' = "done"
    /\ resume' = "none"
    /\ pending' = FALSE
    /\ released' = released
    /\ sResult' = res

\* the for loop over the lines of a chunk, from the line it stands at
RunLoop(ls) ==
    LET step == DrainLines(ls)
    IN /\ lines' = step.rest
       /\ CASE step.kind = "yield" ->
                 /\ yielded' = Append(yielded, step.data)
                 /\ spc' = "yielded"
                 /\ resume' = "loop"
                 /\ pending' = FALSE
                 /\ UNCHANGED <<reads, released, sResult>>
            [] step.kind = "return" ->
                 /\ Exit("sentinel", Returned("done"))
                 /\ UNCHANGED <<yielded, reads>>
            [] OTHER ->
                 /\ reads' = reads + 1
                 /\ spc' = "reading"
                 /\ resume' = "none"
                 /\ pending' = TRUE
                 /\ UNCHANGED <<yielded, released, sResult>>

\* client.stream(path, body, headers, signal): creates the generator; none of
\* its code runs yet
StreamCall ==
    /\ spc = "idle"
    /\ spc' = "start"
    /\ UNCHANGED <<resume, pending, sFetchCalls, sResp, whole, pos, buffer, lines,
                   yielded, reads, acquired, released, sResult>>
    /\ UNCHANGED <<bufferedVars, requestVars, ended, apiVars>>

\* the first next(): the generator runs up to `await this.fetchFn(...)`
StreamStart ==
    /\ spc = "start"
    /\ ~pending
    /\ pending' = TRUE
    /\ sFetchCalls' = sFetchCalls + 1
    /\ spc' = "fetching"
    /\ UNCHANGED <<resume, sResp, whole, pos, buffer, lines, yielded, reads, acquired,
                   released, sResult>>
    /\ UNCHANGED <<bufferedVars, requestVars, ended, apiVars>>

\* the initial response is not ok
StreamFetchError ==
    /\ spc = "fetching"
    /\ \E resp \in StreamResponses :
        /\ ~ResponseOk(resp.status)
        /\ sResp' = resp
        /\ ExitBeforeTry(Raised(FromResponse(ErrorBody(resp), resp.status)))
    /\ UNCHANGED <<sFetchCalls, whole, pos, buffer, lines, yielded, reads, acquired>>
    /\ UNCHANGED <<bufferedVars, requestVars, ended, apiVars>>

\* the initial response is ok but has no body
StreamFetchNoBody ==
    /\ spc = "fetching"
    /\ \E resp \in StreamResponses :
        /\ ResponseOk(resp.status)
        /\ sResp' = resp
        /\ ExitBeforeTry(Raised(MQLAPIError("No response body for stream", 500,
                                            Undefined, Undefined)))
    /\ UNCHANGED <<sFetchCalls, whole, pos, buffer, lines, yielded, reads, acquired>>
    /\ UNCHANGED <<bufferedVars, requestVars, ended, apiVars>>

\* the initial response is ok: the reader is acquired and the first
\* reader.read() is issued
StreamFetchOk ==
    /\ spc = "fetching"
    /\ \E resp \in StreamResponses, text \in StreamTexts :
        /\ ResponseOk(resp.status)
        /\ sResp' = resp
        /\ whole' = text
    /\ acquired' = acquired + 1
    /\ buffer' = <<>>
    /\ reads' = reads + 1
    /\ spc' = "reading"
    /\ UNCHANGED <<resume, pending, sFetchCalls, pos, lines, yielded, released, sResult>>
    /\ UNCHANGED <<bufferedVars, requestVars, ended, apiVars>>

\* fetchFn throws (network failure, or the caller's signal aborted): nothing
\* in stream() catches it
StreamFetchThrows ==
    /\ spc = "fetching"
    /\ \E err \in NetworkErrors \cup {AbortError} : ExitBeforeTry(Raised(err))
    /\ UNCHANGED <<sFetchCalls, sResp, whole, pos, buffer, lines, yielded, reads, acquired>>
    /\ UNCHANGED <<bufferedVars, requestVars, ended, apiVars>>

\* reader.read() resolves with a chunk
ReadChunk ==
    /\ spc = "reading"
    /\ pos < Len(whole)
    /\ \E n \in ChunkSizes \cup {Len(whole) - pos} :
        /\ n <= Len(whole) - pos
        /\ LET split == SplitLines(buffer \o SubSeq(whole, pos + 1, pos + n))
           IN /\ pos' = pos + n
              /\ buffer' = PoppedBuffer(split)
              /\ RunLoop(PoppedLines(split))
    /\ UNCHANGED <<sFetchCalls, sResp, whole, acquired>>
    /\ UNCHANGED <<bufferedVars, requestVars, ended, apiVars>>

\* reader.read() resolves with done: the remaining buffer is processed
ReadDone ==
    /\ spc = "reading"
    /\ pos = Len(whole)
    /\ LET step == FlushBuffer(buffer)
       IN IF step.kind = "yield"
          THEN /\ yielded' = Append(yielded, step.data)
               /\ spc' = "yielded"
               /\ resume' = "flush"
               /\ pending' = FALSE
               /\ UNCHANGED <<released, sResult>>
          ELSE /\ Exit("end", Returned("done"))
               /\ UNCHANGED yielded
    /\ ended' = TRUE
    /\ UNCHANGED <<sFetchCalls, sResp, whole, pos, buffer, lines, reads, acquired>>
    /\ UNCHANGED <<bufferedVars, requestVars, apiVars>>

\* reader.read() rejects (connection failure, or the caller's signal aborted)
ReadThrows ==
    /\ spc = "reading"
    /\ \E err \in NetworkErrors \cup {AbortError} : Exit("error", Raised(err))
    /\ UNCHANGED <<sFetchCalls, sResp, whole, pos, buffer, lines, yielded, reads, acquired>>
    /\ UNCHANGED <<bufferedVars, requestVars, ended, apiVars>>

\* a further next(): the generator resumes after the yield it is suspended at
StreamResume ==
    /\ spc = "yielded"
    /\ ~pending
    /\ IF resume = "loop"
       THEN RunLoop(lines)
       ELSE /\ Exit("end", Returned("done"))
            /\ UNCHANGED <<lines, yielded, reads>>
    /\ UNCHANGED <<sFetchCalls, sResp, whole, pos, buffer, acquired>>
    /\ UNCHANGED <<bufferedVars, requestVars, ended, apiVars>>

\* the consumer abandons the generator with return() or throw(e)
StreamAbandon ==
    /\ spc \in {"start", "yielded"}
    /\ ~pending
    /\ \E how \in {"return", "throw"} :
        LET res == IF how = "return" THEN Returned("abandoned") ELSE Raised(ConsumerError)
        IN IF spc = "start" THEN ExitBeforeTry(res) ELSE Exit(how, res)
    /\ UNCHANGED <<sFetchCalls, sResp, whole, pos, buffer, lines, yielded, reads, acquired>>
    /\ UNCHANGED <<bufferedVars, requestVars, ended, apiVars>>

NextStream ==
    \/ StreamCall
    \/ StreamStart
    \/ StreamFetchError
    \/ StreamFetchNoBody
    \/ StreamFetchOk
    \/ StreamFetchThrows
    \/ ReadChunk
    \/ ReadDone
    \/ ReadThrows
    \/ StreamResume
    \/ StreamAbandon

SpecStream == InitStream /\ [][NextStream]_vars

(***************************************************************************)
(* Properties of stream()                                                  *)
(***************************************************************************)
\* the positions of the line terminators of a text
NewlinePositions(text) == { i \in 1..Len(text) : text[i] = "\n" }

\* the position of the k-th line terminator
NthNewline(text, k) ==
    CHOOSE i \in NewlinePositions(text) :
        Cardinality({ j \in NewlinePositions(text) : j <= i }) = k

\* the complete (terminated) lines of a text, in order
CompleteLines(text) ==
    [ k \in 1..Cardinality(NewlinePositions(text)) |->
        LET to == NthNewline(text, k)
            from == IF k = 1 THEN 1 ELSE NthNewline(text, k - 1) + 1
        IN SubSeq(text, from, to - 1) ]

\* what follows the last line terminator
LastFragment(text) ==
    LET P == NewlinePositions(text)
        from == IF P = {} THEN 1 ELSE (CHOOSE i \in P : \A j \in P : j <= i) + 1
    IN SubSeq(text, from, Len(text))

IsDataLine(line) ==
    Len(line) >= 6 /\ SubSeq(line, 1, 6) = <<"d", "a", "t", "a", ":", " ">>

PayloadOf(line) == [ j \in 1..(Len(line) - 6) |-> line[j + 6] ]

SentinelPayload == <<"[", "D", "O", "N", "E", "]">>

IsSentinelLine(line) == IsDataLine(line) /\ PayloadOf(line) = SentinelPayload

HasSentinelLine(text) ==
    \E k \in 1..Len(CompleteLines(text)) : IsSentinelLine(CompleteLines(text)[k])

\* the complete lines that precede the first sentinel line
LinesBeforeSentinel(text) ==
    LET ls == CompleteLines(text)
        stops == { k \in 1..Len(ls) : IsSentinelLine(ls[k]) }
        first == IF stops = {} THEN Len(ls) + 1
                 ELSE CHOOSE k \in stops : \A j \in stops : k <= j
    IN SubSeq(ls, 1, first - 1)

\* the payloads of the data lines among the complete lines before the sentinel
LinePayloads(text) ==
    LET data == SelectSeq(LinesBeforeSentinel(text), IsDataLine)
    IN [ k \in 1..Len(data) |-> PayloadOf(data[k]) ]

\* the payload of the unterminated last line, when it is a data line other
\* than the sentinel and no sentinel line came before
TailPayloads(text) ==
    IF ~HasSentinelLine(text) /\ IsDataLine(LastFragment(text))
       /\ ~IsSentinelLine(LastFragment(text))
    THEN <<PayloadOf(LastFragment(text))>>
    ELSE <<>>

IsPrefixOf(a, b) == Len(a) <= Len(b) /\ SubSeq(b, 1, Len(a)) = a

\* the generator ran to its own end (it was not abandoned and did not raise)
NormalEnd == spc = "done" /\ sResult = Returned("done")

\* C11: for a 2xx event-stream response stream() yields, in arrival order,
\* exactly the payloads of the complete lines that start with `data: ` and
\* precede the first line whose payload is `[DONE]`; it never yields the
\* sentinel or a line without the prefix, and nothing from after the sentinel.
C11_YieldsDataLinesBeforeSentinel ==
    /\ \A i \in 1..Len(yielded) : yielded[i] # SentinelPayload
    /\ IsPrefixOf(yielded, LinePayloads(whole) \o TailPayloads(whole))
    /\ NormalEnd => IsPrefixOf(LinePayloads(whole), yielded)
    /\ (NormalEnd /\ HasSentinelLine(whole)) => yielded = LinePayloads(whole)

C11_Witness ==
    /\ NormalEnd
    /\ HasSentinelLine(whole)
    /\ ~IsSentinelLine(LastFragment(whole))
    /\ IsDataLine(LastFragment(whole))
    /\ yielded = <<<<"x">>>>
    /\ reads >= 3

\* C12: when the byte stream ends without a sentinel, the remaining buffered
\* text is treated as one last line: its payload is yielded if it starts with
\* `data: ` (and is not the sentinel), otherwise it is discarded; either way
\* the sequence ends normally without raising.
C12_FlushesLastLine ==
    /\ (NormalEnd /\ ~HasSentinelLine(whole)) =>
          yielded = LinePayloads(whole) \o TailPayloads(whole)
    /\ resume = "flush" =>
          /\ TailPayloads(whole) # <<>>
          /\ yielded = LinePayloads(whole) \o TailPayloads(whole)
    /\ (ended /\ spc = "done") =>
          (sResult.kind = "error" => sResult.error = ConsumerError)

C12_Witness ==
    /\ NormalEnd
    /\ ended
    /\ ~HasSentinelLine(whole)
    /\ LastFragment(whole) = <<"d", "a", "t", "a", ":", " ", "y">>
    /\ yielded = <<<<"x">>, <<"y">>>>

\* the error payload of the stream's initial response: its JSON, or the status text
StreamPayload ==
    IF sResp.body.parses
    THEN sResp.body.json
    ELSE [error |-> StatusText(sResp.status), code |-> Undefined, details |-> Undefined]

StreamResponseNotOk ==
    sResp.type = "response" /\ ~(sResp.status >= 200 /\ sResp.status <= 299)

\* C13: when the initial response of stream() is not 2xx (status >= 500
\* included), the transport has been invoked exactly once and an APIError with
\* that status and the parsed (or synthesized) payload is raised before any
\* element is yielded; there is no retry and no backoff sleep.
C13_StreamErrorNotRetried ==
    /\ sFetchCalls <= 1
    /\ StreamResponseNotOk =>
          /\ spc = "done"
          /\ sFetchCalls = 1
          /\ sResult = Raised([type |-> "apierror", message |-> StreamPayload.error,
                               status |-> sResp.status, code |-> StreamPayload.code,
                               details |-> StreamPayload.details])
          /\ yielded = <<>>
          /\ reads = 0
          /\ acquired = 0
          /\ delays = <<>>

C13_Witness ==
    /\ spc = "done"
    /\ sResp.type = "response"
    /\ sResp.status = 503
    /\ client.maxRetries >= 1
    /\ sFetchCalls = 1
    /\ sResult.kind = "error"
    /\ sResult.error.status = 503

\* C14: once stream() has acquired the reader, the reader is released exactly
\* once on every exit of the generator: end of the byte stream, the sentinel,
\* an exception from a read, and abandonment by the consumer at a yield.
C14_ReaderReleasedOnce ==
    /\ acquired <= 1
    /\ released <= acquired
    /\ spc # "done" => released = 0
    /\ (spc = "done" /\ acquired = 1) => released = 1

C14_Witness ==
    /\ spc = "done"
    /\ acquired = 1
    /\ released = 1
    /\ sResult = Raised(ConsumerError)
    /\ Len(yielded) = 1
    /\ pos < Len(whole)

\* C15: stream() is pull-driven: the transport request and the reads are
\* issued only while a consumer pull is pending, none between two pulls, and a
\* pull issues a read only when what was delivered so far holds no payload
\* that is still to be yielded.
C15_PullDriven ==
    /\ [](spc \in {"fetching", "reading"} => pending)
    /\ [](~pending => spc \in {"idle", "start", "yielded", "done"})
    /\ [][ (reads' # reads \/ sFetchCalls' # sFetchCalls) =>
             /\ pending'
             /\ (pending \/ spc \in {"start", "yielded"}) ]_vars
    /\ [][ reads' # reads =>
             /\ reads' = reads + 1
             /\ yielded' = yielded
             /\ yielded' = LinePayloads(SubSeq(whole', 1, pos')) ]_vars

C15_Witness ==
    /\ spc = "yielded"
    /\ ~pending
    /\ resume = "loop"
    /\ lines # <<>>
    /\ reads = 1
    /\ Len(yielded) = 1
    /\ pos = Len(whole)

\* C19: every failure of a buffered call, and every failure of the initial
\* request of stream() other than a cancellation, reaches the caller as an
\* APIError; an exception of the transport is never passed on unwrapped.
C19_FailuresAreAPIErrors ==
    /\ result.kind = "error" => result.error.type = "apierror"
    /\ (sResult.kind = "error" /\ sFetchCalls = 1 /\ acquired = 0) =>
          \/ sResult.error.type = "apierror"
          \/ sResult.error.name = "AbortError"

(***************************************************************************)
(* Failing requests: a buffered call, or a stream() whose initial request  *)
(* does not lead to a readable body                                        *)
(***************************************************************************)
\* one client issues either buffered calls or a stream whose request fails
NextFailure ==
    \/ spc = "idle" /\ Call
    \/ FetchResponds
    \/ FetchThrows
    \/ TimeoutFires
    \/ FetchAborts
    \/ SleepElapses
    \/ pc = "idle" /\ StreamCall
    \/ StreamStart
    \/ StreamFetchError
    \/ StreamFetchNoBody
    \/ StreamFetchThrows
    \/ StreamAbandon

SpecFailure == Init /\ [][NextFailure]_vars

\* the latest response of the buffered call is non-2xx with a body that is not JSON
LastUnparseableError ==
    /\ last.type = "response"
    /\ ~(last.status >= 200 /\ last.status <= 299)
    /\ ~last.body.parses

\* the initial response of the stream is non-2xx with a body that is not JSON
StreamUnparseableError == StreamResponseNotOk /\ ~sResp.body.parses

\* the APIError synthesized from a status and its status text
SynthesizedError(status, text) ==
    [type |-> "apierror", message |-> text, status |-> status,
     code |-> "undefined", details |-> "undefined"]

HttpStatusText(status) ==
    CASE status = 404 -> "Not Found"
      [] status = 500 -> "Internal Server Error"
      [] status = 503 -> "Service Unavailable"

\* C21: when a non-2xx response body cannot be parsed as JSON, the call
\* (buffered or stream) raises an APIError whose status is the response status
\* and whose message is the response's status text; the parse failure is never
\* raised to the caller, and the response is retried exactly when its status
\* is >= 500 and retries are left, as for a body that parses.
C21_UnparseableErrorBody ==
    /\ (LastUnparseableError /\ pc = "raised") =>
          result = Raised(SynthesizedError(last.status, HttpStatusText(last.status)))
    /\ (last.type = "response" /\ ~(last.status >= 200 /\ last.status <= 299)
          /\ pc # "fetch") =>
          /\ pc \in {"sleep", "raised"}
          /\ pc = "sleep" <=> (last.status >= 500 /\ retryCount < client.maxRetries)
    /\ StreamUnparseableError =>
          /\ spc = "done"
          /\ sResult = Raised(SynthesizedError(sResp.status, HttpStatusText(sResp.status)))
    /\ (pc = "raised" /\ last.type = "response"
          /\ ~(last.status >= 200 /\ last.status <= 299)) =>
          /\ result.error.type = "apierror"
          /\ result.error.status = last.status
          /\ result.error.message # "Unexpected token"
    /\ StreamResponseNotOk =>
          /\ sResult.error.type = "apierror"
          /\ sResult.error.message # "Unexpected token"

C21_Witness ==
    /\ pc = "raised"
    /\ LastUnparseableError
    /\ last.status = 503
    /\ retryCount = client.maxRetries
    /\ retryCount >= 1
    /\ result.error.message = "Service Unavailable"
    /\ result.error.status = 503

\* C21, stream side: an unparseable 404 body ends the stream with the
\* synthesized error
C21_StreamCase ==
    /\ spc = "done"
    /\ StreamUnparseableError
    /\ sResp.status = 404
    /\ sResult.error.message = "Not Found"

(***************************************************************************)
(* Construction, updateAuth and MQL.withAuth                               *)
(***************************************************************************)
\* the fields of the client under construction
ThisClient ==
    [baseUrl |-> baseUrl, apiKey |-> auth.apiKey, token |-> auth.token,
     timeout |-> client.timeout, maxRetries |-> client.maxRetries, fetchFn |-> fetchFn]

\* new HttpClient(options) / new MQL(options) for every combination of options
InitConfig ==
    /\ options \in OptionSets
    /\ cfg \in [baseUrl : BaseUrlOptions, apiKey : {Undefined, "proxy-key"},
                token : {Undefined, "jwt"}, fetch : {Undefined, CustomFetch}]
    /\ client = Constructor(options)
    /\ auth = [apiKey |-> cfg.apiKey, token |-> cfg.token]
    /\ baseUrl = NormalizeBaseUrl(cfg.baseUrl)
    /\ fetchFn = FetchOrGlobal(cfg.fetch)
    /\ derived = NoClient
    /\ derivedMql = NoClient
    /\ AttemptIdle
    /\ ChatIdle
    /\ VideoIdle
    /\ pc = "idle"
    /\ method = "GET"
    /\ retryCount = 0
    /\ fetchCalls = 0
    /\ timers = {}
    /\ inFlight = {}
    /\ aborted = {}
    /\ last = NoOutcome
    /\ jsonInvoked = FALSE
    /\ seen = {}
    /\ delays = <<>>
    /\ result = NoResult
    /\ req = NoRequest
    /\ StreamIdle

\* the credentials handed to updateAuth / withAuth
AuthArguments == [apiKey : {Undefined, "new-key"}, token : {Undefined, "new-jwt"}]

\* httpClient.updateAuth(a)
UpdateAuthCall ==
    /\ \E a \in AuthArguments : derived' = UpdateAuth(ThisClient, a)
    /\ UNCHANGED <<cfg, baseUrl, fetchFn, derivedMql, attemptVars, chatVars, videoVars>>
    /\ UNCHANGED <<bufferedVars, requestVars, streamVars>>

\* mql.withAuth(a): updateAuth's result is bound to newClient and not used
WithAuthCall ==
    /\ \E a \in AuthArguments :
          LET newClient == UpdateAuth(ThisClient, a)
          IN derivedMql' = WithAuth(ThisClient, a)
    /\ UNCHANGED <<cfg, baseUrl, fetchFn, derived, attemptVars, chatVars, videoVars>>
    /\ UNCHANGED <<bufferedVars, requestVars, streamVars>>

NextConfig ==
    \/ UpdateAuthCall
    \/ WithAuthCall

SpecConfig == InitConfig /\ [][NextConfig]_vars

(***************************************************************************)
(* Properties of construction, updateAuth and withAuth                     *)
(***************************************************************************)
EndsWithSlash(text) == Len(text) >= 1 /\ text[Len(text)] = "/"

\* the fields of the original client are those its constructor computed
OriginalAsConstructed ==
    /\ auth.apiKey = cfg.apiKey
    /\ auth.token = cfg.token
    /\ fetchFn = (IF cfg.fetch = "undefined" THEN "globalThis.fetch" ELSE cfg.fetch)
    /\ client.timeout = (IF options.timeout \in {-1, 0} THEN 30000 ELSE options.timeout)
    /\ client.maxRetries = (IF options.maxRetries \in {-1, 0} THEN 3 ELSE options.maxRetries)

\* C22: updateAuth returns a new client whose base URL, timeout, maxRetries
\* and transport function equal those of the original, and leaves every field
\* of the original client (its key and token included) unchanged.
C22_UpdateAuthKeepsConfiguration ==
    /\ OriginalAsConstructed
    /\ derived.fetchFn # "none" =>
          /\ derived.baseUrl = baseUrl
          /\ derived.timeout = client.timeout
          /\ derived.maxRetries = client.maxRetries
          /\ derived.fetchFn = fetchFn

\* C23: the client returned by MQL.withAuth(auth) has the base URL, timeout,
\* maxRetries and transport function of the client it was derived from.
C23_WithAuthKeepsConfiguration ==
    derivedMql.fetchFn # "none" =>
        /\ derivedMql.baseUrl = baseUrl
        /\ derivedMql.timeout = client.timeout
        /\ derivedMql.maxRetries = client.maxRetries
        /\ derivedMql.fetchFn = fetchFn

\* C24: for every base URL string passed to the constructor, ending in one or
\* several `/` included, the base URL the client stores and getBaseUrl()
\* returns does not end with `/`.
C24_NoTrailingSlash ==
    /\ ~EndsWithSlash(baseUrl)
    /\ ~EndsWithSlash(derived.baseUrl)
    /\ ~EndsWithSlash(derivedMql.baseUrl)

(***************************************************************************)
(* The attempts of one buffered call and what each hands to fetchFn        *)
(***************************************************************************)
\* the additional headers of the calls whose attempts are followed
AttemptHeaders == { h \in CallerHeaders : DOMAIN h \subseteq {"Authorization"} }

AttemptParams == {<<>>, <<<<"a", NumberValue(1)>>, <<"b", UndefinedValue>>>>}

\* the arguments get / post / put / patch / delete pass to requestWithRetry
CallArguments(m) ==
    CASE m = "GET" ->
           { Arguments("/v1/models", Undefined, params, headers, 0) :
               params \in AttemptParams, headers \in AttemptHeaders }
      [] m = "DELETE" ->
           { Arguments("/v1/filters/1", Undefined, <<>>, headers, 0) :
               headers \in AttemptHeaders }
      [] OTHER ->
           { Arguments("/v1/chat/completions", body, <<>>, headers, 0) :
               body \in RequestBodies, headers \in AttemptHeaders }

\* what one invocation of requestWithRetry hands to fetchFn
AttemptRequest(m, args) ==
    [request |-> BufferedRequest(m, args.path, args.body, args.params, args.headers),
     retryCount |-> args.retryCount]

InitAttempts ==
    /\ options \in { o \in OptionSets : o.timeout = UndefinedNum
                                          /\ o.maxRetries \in {UndefinedNum, 1} }
    /\ client = Constructor(options)
    /\ pc = "idle"
    /\ method = "GET"
    /\ retryCount = 0
    /\ fetchCalls = 0
    /\ timers = {}
    /\ inFlight = {}
    /\ aborted = {}
    /\ last = NoOutcome
    /\ jsonInvoked = FALSE
    /\ seen = {}
    /\ delays = <<>>
    /\ result = NoResult
    /\ auth \in { c \in Credentials : c.apiKey = "proxy-key" /\ c.token # "" }
    /\ req = NoRequest
    /\ StreamIdle
    /\ ApiIdle

\* get / post / put / patch / delete with their arguments: the first attempt
CallWithArguments ==
    /\ pc \in {"idle", "returned", "raised"}
    /\ \E m \in Methods : \E args \in CallArguments(m) :
          /\ method' = m
          /\ callArgs' = args
          /\ req' = AttemptRequest(m, args).request
          /\ sent' = <<AttemptRequest(m, args)>>
    /\ StartAttempt(0, 0)
    /\ aborted' = {}
    /\ last' = NoOutcome
    /\ jsonInvoked' = FALSE
    /\ seen' = {}
    /\ delays' = <<>>
    /\ result' = NoResult
    /\ UNCHANGED <<options, client, auth>>
    /\ UNCHANGED <<streamVars, configVars, chatVars, videoVars>>

\* the backoff sleep resolves: requestWithRetry(method, path, { ...options,
\* retryCount: retryCount + 1 }) builds its request anew
Retry ==
    /\ pc = "sleep"
    /\ SleepResolves(delays[Len(delays)])
    /\ callArgs' = RetryOptions(callArgs, retryCount)
    /\ StartAttempt(callArgs'.retryCount, fetchCalls)
    /\ req' = AttemptRequest(method, callArgs').request
    /\ sent' = Append(sent, AttemptRequest(method, callArgs'))
    /\ UNCHANGED <<options, client, method, aborted, last, jsonInvoked, seen,
                   delays, result, auth>>
    /\ UNCHANGED <<streamVars, configVars, chatVars, videoVars>>

NextAttempts ==
    \/ CallWithArguments
    \/ FetchResponds
    \/ FetchThrows
    \/ TimeoutFires
    \/ FetchAborts
    \/ Retry

SpecAttempts == InitAttempts /\ [][NextAttempts]_vars

\* C25: every attempt of one buffered call is issued with the same method,
\* URL (path and query parameters), headers and serialized body as the first
\* attempt; between attempts only the attempt counter changes, and it
\* increases by exactly 1 per retry starting from 0.
C25_AttemptsReuseRequest ==
    /\ Len(sent) = fetchCalls
    /\ \A i \in 1..Len(sent) :
          /\ sent[i].request.method = sent[1].request.method
          /\ sent[i].request.url = sent[1].request.url
          /\ sent[i].request.headers = sent[1].request.headers
          /\ sent[i].request.body = sent[1].request.body
          /\ sent[i].retryCount = i - 1
    /\ sent # <<>> =>
          /\ retryCount = Len(sent) - 1
          /\ callArgs.retryCount = retryCount
          /\ callArgs.body = (IF sent[1].request.body = <<>> THEN "undefined"
                              ELSE sent[1].request.body[2])
          /\ callArgs.params = sent[1].request.params
          /\ callArgs.headers = sent[1].request.additional

C25_Witness ==
    /\ Len(sent) >= 3
    /\ sent[3].request.method = "GET"
    /\ sent[3].request.url.href = <<"/v1/models", "?", "a", "=", "1">>
    /\ sent[3].request.headers["Authorization"] = <<"Bearer", "caller-token">>
    /\ sent[3].retryCount = 2
    /\ pc = "fetch"

(***************************************************************************)
(* stream(): independence of the chunking                                  *)
(***************************************************************************)
\* the for loop run over all the lines of one chunk: the payloads it yields
\* and whether it returned at the sentinel
RECURSIVE DrainAll(_)
DrainAll(ls) ==
    LET step == DrainLines(ls)
    IN CASE step.kind = "yield" ->
              [data |-> <<step.data>> \o DrainAll(step.rest).data,
               returned |-> DrainAll(step.rest).returned]
         [] step.kind = "return" -> [data |-> <<>>, returned |-> TRUE]
         [] OTHER -> [data |-> <<>>, returned |-> FALSE]

\* what stream() yields when the reader delivers the whole text as one chunk
SingleChunkYield(text) ==
    LET split == SplitLines(text)
        loop == DrainAll(PoppedLines(split))
        flush == FlushBuffer(PoppedBuffer(split))
    IN loop.data \o
       (IF ~loop.returned /\ flush.kind = "yield" THEN <<flush.data>> ELSE <<>>)

\* C26: the sequence of payloads stream() yields depends only on the text of
\* the response body, not on how the text is split into chunks: whatever the
\* chunking (splits inside `data: `, inside a payload or inside `[DONE]`
\* included), what has been yielded is a prefix of what the text yields as a
\* single chunk, and equal to it when the generator has run to its end.
C26_ChunkingIndependent ==
    /\ IsPrefixOf(yielded, SingleChunkYield(whole))
    /\ NormalEnd => yielded = SingleChunkYield(whole)

C26_Witness ==
    /\ NormalEnd
    /\ whole = <<"d", "a", "t", "a", ":", " ", "x", "\n",
                 "d", "a", "t", "a", ":", " ", "[", "D", "O", "N", "E", "]", "\n",
                 "d", "a", "t", "a", ":", " ", "y">>
    /\ pos = 21
    /\ reads = 21
    /\ yielded = <<<<"x">>>>

(***************************************************************************)
(* Termination of a buffered call                                          *)
(***************************************************************************)
\* every pending transport invocation eventually responds, throws or is
\* aborted by its timer, and every backoff timer eventually fires
Fairness ==
    /\ WF_vars(FetchResponds \/ FetchThrows \/ FetchAborts)
    /\ WF_vars(SleepElapses)

SpecLive == Init /\ [][Next]_vars /\ Fairness

\* C27: provided every transport invocation eventually responds, throws or is
\* aborted by its timeout timer, and every timer eventually fires or is
\* cancelled, each buffered call eventually returns a value or raises an
\* APIError; it cannot retry forever.
C27_CallTerminates ==
    /\ (pc \in {"fetch", "sleep"}) ~> (pc \in {"returned", "raised"})
    /\ [](pc = "returned" => result.kind = "value")
    /\ [](pc = "raised" => (result.kind = "error" /\ result.error.type = "apierror"))

C27_Witness ==
    /\ pc = "raised"
    /\ retryCount = client.maxRetries
    /\ retryCount >= 4
    /\ Len(delays) = retryCount
    /\ result.error.type = "apierror"

(***************************************************************************)
(* ChatAPI.stream: the generator over the payloads of client.stream()      *)
(***************************************************************************)
\* largest number of payloads the underlying stream yields
MaxFeed == 2

\* a payload as JSON.parse sees it: whether the text is JSON, what `choices`
\* of the parsed value is, and choices[0].delta.content
Payload(json, choices, content) == [json |-> json, choices |-> choices, content |-> content]

\* {"choices":[{"delta":{"content":c}}]}
ContentPayload(c) == Payload(TRUE, "delta", c)
\* {"choices":[{"delta":{}}]}
EmptyDeltaPayload == Payload(TRUE, "delta", Undefined)
\* {"choices":[]}
NoChoicePayload == Payload(TRUE, "empty", Undefined)
\* {"error":"overloaded"}: JSON without a `choices` member
ErrorPayload == Payload(TRUE, "undefined", Undefined)
\* text that is not JSON
InvalidPayload == Payload(FALSE, "undefined", Undefined)

Payloads ==
    {ContentPayload("a"), ContentPayload("b"), EmptyDeltaPayload, NoChoicePayload,
     ErrorPayload, InvalidPayload}

RECURSIVE Feeds(_)
Feeds(n) ==
    IF n = 0
    THEN {<<>>}
    ELSE Feeds(n - 1) \cup { Append(f, p) : f \in Feeds(n - 1), p \in Payloads }

\* how client.stream() ends: normally, with the APIError of a failed request,
\* or with the exception of the transport
InnerEnds ==
    {NoOutcome, FromResponse(ServerPayload, 503)} \cup
    { e \in NetworkErrors : e.message = "socket hang up" }

StreamOptionsSets == [onChunk : BOOLEAN, onComplete : BOOLEAN, onError : BOOLEAN]

\* (error as { status?: number }).status
ErrorStatus(err) == IF err.type = "apierror" THEN err.status ELSE UndefinedNum

\* chunk.choices[0]?.delta?.content throws when chunk.choices is undefined
ReadsContent(data) == data.choices # "undefined"

\* the body of the for-await loop for one payload: the inner try block and
\* its empty catch
ChunkStep(data, content, hasOnChunk, onChunkThrows) ==
    IF ~data.json \/ ~ReadsContent(data)
    THEN [kind |-> "skip", content |-> content, called |-> FALSE]
    ELSE [kind |-> IF hasOnChunk /\ onChunkThrows THEN "skip" ELSE "yield",
          content |-> IF Truthy(data.content) THEN Append(content, data.content)
                      ELSE content,
          called |-> hasOnChunk]

InitChat ==
    /\ BufferedIdle
    /\ RequestIdle
    /\ StreamIdle
    /\ ConfigIdle
    /\ AttemptIdle
    /\ VideoIdle
    /\ chatOpts \in StreamOptionsSets
    /\ feed \in Feeds(MaxFeed)
    /\ innerEnd \in InnerEnds
    /\ taken = 0
    /\ innerState = "none"
    /\ cpc = "idle"
    /\ fullContent = <<>>
    /\ cYielded = <<>>
    /\ chunkCalls = <<>>
    /\ completeCalls = <<>>
    /\ errorCalls = <<>>
    /\ cResult = NoResult

\* chat.stream(request, options): creates the generator; none of its code runs
ChatCall ==
    /\ cpc = "idle"
    /\ cpc' = "start"
    /\ UNCHANGED <<chatOpts, feed, innerEnd, taken, innerState, fullContent, cYielded,
                   chunkCalls, completeCalls, errorCalls, cResult>>
    /\ UNCHANGED <<bufferedVars, requestVars, streamVars, configVars, attemptVars, videoVars>>

\* next(): from the start the generator calls client.stream() and awaits its
\* first payload; from a yield it goes round the loop and awaits the next one
ChatNext ==
    /\ cpc \in {"start", "yielded"}
    /\ cpc' = "pulling"
    /\ innerState' = "open"
    /\ UNCHANGED <<chatOpts, feed, innerEnd, taken, fullContent, cYielded, chunkCalls,
                   completeCalls, errorCalls, cResult>>
    /\ UNCHANGED <<bufferedVars, requestVars, streamVars, configVars, attemptVars, videoVars>>

\* the underlying stream yields its next payload
ChatReceives ==
    /\ cpc = "pulling"
    /\ taken < Len(feed)
    /\ \E throws \in BOOLEAN :
          LET data == feed[taken + 1]
              step == ChunkStep(data, fullContent, chatOpts.onChunk, throws)
          IN /\ fullContent' = step.content
             /\ chunkCalls' = IF step.called THEN Append(chunkCalls, data) ELSE chunkCalls
             /\ cYielded' = IF step.kind = "yield" THEN Append(cYielded, data) ELSE cYielded
             /\ cpc' = IF step.kind = "yield" THEN "yielded" ELSE "pulling"
    /\ taken' = taken + 1
    /\ UNCHANGED <<chatOpts, feed, innerEnd, innerState, completeCalls, errorCalls, cResult>>
    /\ UNCHANGED <<bufferedVars, requestVars, streamVars, configVars, attemptVars, videoVars>>

\* the underlying stream ends: onComplete is called and the generator returns
ChatInnerEnds ==
    /\ cpc = "pulling"
    /\ taken = Len(feed)
    /\ innerEnd = NoOutcome
    /\ innerState' = "ended"
    /\ completeCalls' = IF chatOpts.onComplete THEN Append(completeCalls, fullContent)
                        ELSE completeCalls
    /\ cpc' = "done"
    /\ cResult' = Returned(fullContent)
    /\ UNCHANGED <<chatOpts, feed, innerEnd, taken, fullContent, cYielded, chunkCalls,
                   errorCalls>>
    /\ UNCHANGED <<bufferedVars, requestVars, streamVars, configVars, attemptVars, videoVars>>

\* the underlying stream raises: the outer catch calls onError and rethrows
ChatInnerRaises ==
    /\ cpc = "pulling"
    /\ taken = Len(feed)
    /\ innerEnd # NoOutcome
    /\ innerState' = "raised"
    /\ errorCalls' = IF chatOpts.onError
                     THEN Append(errorCalls, [error |-> innerEnd.message,
                                              status |-> ErrorStatus(innerEnd)])
                     ELSE errorCalls
    /\ cpc' = "done"
    /\ cResult' = Raised(innerEnd)
    /\ UNCHANGED <<chatOpts, feed, innerEnd, taken, fullContent, cYielded, chunkCalls,
                   completeCalls>>
    /\ UNCHANGED <<bufferedVars, requestVars, streamVars, configVars, attemptVars, videoVars>>

\* the consumer calls throw(e) at a yield: the yield sits in the inner try
\* block, whose catch swallows e, and the loop goes on to the next payload
ChatThrowAtYield ==
    /\ cpc = "yielded"
    /\ cpc' = "pulling"
    /\ UNCHANGED <<chatOpts, feed, innerEnd, taken, innerState, fullContent, cYielded,
                   chunkCalls, completeCalls, errorCalls, cResult>>
    /\ UNCHANGED <<bufferedVars, requestVars, streamVars, configVars, attemptVars, videoVars>>

\* the consumer calls return() at a yield (or breaks out of its loop): the
\* for-await loop closes the underlying stream and the generator completes
ChatReturnAtYield ==
    /\ cpc = "yielded"
    /\ cpc' = "done"
    /\ innerState' = "returned"
    /\ cResult' = Returned(<<"abandoned">>)
    /\ UNCHANGED <<chatOpts, feed, innerEnd, taken, fullContent, cYielded, chunkCalls,
                   completeCalls, errorCalls>>
    /\ UNCHANGED <<bufferedVars, requestVars, streamVars, configVars, attemptVars, videoVars>>

NextChat ==
    \/ ChatCall
    \/ ChatNext
    \/ ChatReceives
    \/ ChatInnerEnds
    \/ ChatInnerRaises
    \/ ChatThrowAtYield
    \/ ChatReturnAtYield

SpecChat == InitChat /\ [][NextChat]_vars

(***************************************************************************)
(* Properties of ChatAPI.stream                                            *)
(***************************************************************************)
\* the delta contents of a sequence of chunks, in order
RECURSIVE DeltaContents(_)
DeltaContents(chunks) ==
    IF chunks = <<>>
    THEN <<>>
    ELSE (IF Head(chunks).content \in {"a", "b"} THEN <<Head(chunks).content>> ELSE <<>>)
         \o DeltaContents(Tail(chunks))

\* C28: if the underlying stream runs to its normal end, onComplete is called
\* exactly once, after the last chunk, with the concatenation in order of the
\* delta contents of the yielded chunks, and onError is not called; if the
\* underlying stream raises an error, onError is called once with that
\* error's message and status, the error is re-raised to the consumer, and
\* onComplete is never called.
C28_CompletionCallbacks ==
    /\ innerState = "ended" =>
          /\ cpc = "done"
          /\ chatOpts.onComplete => completeCalls = <<DeltaContents(cYielded)>>
          /\ errorCalls = <<>>
    /\ innerState = "raised" =>
          /\ cpc = "done"
          /\ chatOpts.onError =>
                errorCalls = <<[error |-> innerEnd.message,
                                status |-> IF innerEnd.type = "apierror"
                                           THEN innerEnd.status ELSE -1]>>
          /\ cResult = [kind |-> "error", error |-> innerEnd]
          /\ completeCalls = <<>>
    /\ innerState \notin {"ended", "raised"} => (completeCalls = <<>> /\ errorCalls = <<>>)

\* the payloads received so far that parse as JSON, in order
ParsableReceived == SelectSeq(SubSeq(feed, 1, taken), LAMBDA d : d.json)

\* C29: ChatAPI.stream yields to the consumer, exactly once and in order,
\* every payload of the underlying stream that parses as JSON, and skips
\* (without ending the stream or raising) exactly the payloads that do not
\* parse, whatever the onChunk callback does.
C29_YieldsEveryParsablePayload ==
    /\ cYielded = ParsableReceived
    /\ (cpc = "done" /\ innerEnd.type = "none" /\ innerState = "ended") =>
          cResult.kind = "value"

(***************************************************************************)
(* VideoAPI.createAndWait                                                  *)
(***************************************************************************)
\* the options of createAndWait
VideoOptionSets ==
    { o \in [pollIntervalMs : {UndefinedNum, 1000}, maxWaitMs : {UndefinedNum, 0, 3000}] :
        o.maxWaitMs = UndefinedNum => o.pollIntervalMs = UndefinedNum }

\* how long the create call and a status poll take, and how late the timer of
\* sleep(pollInterval) fires
CreateDurations == {0, 4000}
PollDurations == {0, 1000}
SleepLateness == {0, 1000}

\* the id of the job the server creates
JobIds == {"video_1", "video_2"}

\* the APIError a failed create or status request raises
VideoRequestError == FromResponse(ServerPayload, 503)

InitVideo ==
    /\ BufferedIdle
    /\ RequestIdle
    /\ StreamIdle
    /\ ConfigIdle
    /\ AttemptIdle
    /\ ChatIdle
    /\ vOpts \in VideoOptionSets
    /\ vpc = "idle"
    /\ now = 0
    /\ checkedAt = 0
    /\ vJob = "none"
    /\ vPolls = <<>>
    /\ vLast = NoStatus
    /\ vResult = NoResult

\* the test of the while condition at elapsed time t: the loop body is
\* entered (up to its sleep), or the timed-out error is thrown
LoopHead(t) ==
    /\ checkedAt' = t
    /\ IF WithinMaxWait(t, MaxWait(vOpts))
       THEN /\ vpc' = "sleeping"
            /\ vResult' = vResult
       ELSE /\ vpc' = "done"
            /\ vResult' = Raised(ErrorOf(TimedOutMessage(MaxWait(vOpts))))

\* createAndWait(request, options) up to `await this.create(request)`
VideoCall ==
    /\ vpc = "idle"
    /\ vpc' = "creating"
    /\ UNCHANGED <<vOpts, now, checkedAt, vJob, vPolls, vLast, vResult>>
    /\ UNCHANGED <<bufferedVars, requestVars, streamVars, configVars, attemptVars, chatVars>>

\* the create call returns the job
CreateResolves ==
    /\ vpc = "creating"
    /\ \E dt \in CreateDurations, id \in JobIds :
          /\ now' = now + dt
          /\ vJob' = id
          /\ LoopHead(now + dt)
    /\ UNCHANGED <<vOpts, vPolls, vLast>>
    /\ UNCHANGED <<bufferedVars, requestVars, streamVars, configVars, attemptVars, chatVars>>

\* the create call raises
CreateThrows ==
    /\ vpc = "creating"
    /\ \E dt \in CreateDurations : now' = now + dt
    /\ vpc' = "done"
    /\ vResult' = Raised(VideoRequestError)
    /\ UNCHANGED <<vOpts, checkedAt, vJob, vPolls, vLast>>
    /\ UNCHANGED <<bufferedVars, requestVars, streamVars, configVars, attemptVars, chatVars>>

\* sleep(pollInterval) resolves and getStatus(videoId) is called
VideoSleepElapses ==
    /\ vpc = "sleeping"
    /\ \E late \in SleepLateness : now' = now + PollInterval(vOpts) + late
    /\ vPolls' = Append(vPolls, vJob)
    /\ vpc' = "polling"
    /\ UNCHANGED <<vOpts, checkedAt, vJob, vLast, vResult>>
    /\ UNCHANGED <<bufferedVars, requestVars, streamVars, configVars, attemptVars, chatVars>>

\* getStatus returns a status
PollResolves ==
    /\ vpc = "polling"
    /\ \E dt \in PollDurations, status \in StatusesOf(vJob) :
          /\ now' = now + dt
          /\ vLast' = status
          /\ CASE PollDecision(status) = "return" ->
                    /\ vpc' = "done"
                    /\ vResult' = Returned(status)
                    /\ UNCHANGED checkedAt
               [] PollDecision(status) = "throw" ->
                    /\ vpc' = "done"
                    /\ vResult' = Raised(ErrorOf(FailedMessage(status)))
                    /\ UNCHANGED checkedAt
               [] OTHER -> LoopHead(now + dt)
    /\ UNCHANGED <<vOpts, vJob, vPolls>>
    /\ UNCHANGED <<bufferedVars, requestVars, streamVars, configVars, attemptVars, chatVars>>

\* getStatus raises
PollThrows ==
    /\ vpc = "polling"
    /\ \E dt \in PollDurations : now' = now + dt
    /\ vpc' = "done"
    /\ vResult' = Raised(VideoRequestError)
    /\ UNCHANGED <<vOpts, checkedAt, vJob, vPolls, vLast>>
    /\ UNCHANGED <<bufferedVars, requestVars, streamVars, configVars, attemptVars, chatVars>>

NextVideo ==
    \/ VideoCall
    \/ CreateResolves
    \/ CreateThrows
    \/ VideoSleepElapses
    \/ PollResolves
    \/ PollThrows

SpecVideo == InitVideo /\ [][NextVideo]_vars

(***************************************************************************)
(* Properties of createAndWait                                             *)
(***************************************************************************)
\* the maximum wait the caller asked for, or the documented 10 minutes
RequestedMaxWait == IF vOpts.maxWaitMs = -1 THEN 600000 ELSE vOpts.maxWaitMs

IsTerminal(status) == status.status \in {"completed", "failed"}

RaisedTimedOut ==
    /\ vResult.kind = "error"
    /\ vResult.error.type = "error"
    /\ vResult.error.name = "Error"
    /\ vResult.error.message[1] = "Video generation timed out after "

RaisedFailed ==
    /\ vResult.kind = "error"
    /\ vResult.error.type = "error"
    /\ vResult.error.name = "Error"
    /\ vResult.error.message[1] = "Video generation failed: "

\* C30: createAndWait issues status polls only after the create call has
\* returned a job id (and for that id), returns only a status whose state is
\* `completed`, raises a failure error at the first polled status `failed`,
\* issues no poll after the first `completed` or `failed` status, and raises a
\* timed-out error once maxWaitMs has elapsed without either; it never returns
\* a status that is `queued` or `in_progress`.
C30_CreateAndWait ==
    /\ [](vPolls # <<>> => (vJob # "none" /\ \A i \in 1..Len(vPolls) : vPolls[i] = vJob))
    /\ [](vResult.kind = "value" =>
            /\ vResult.value.status = "completed"
            /\ vResult.value = vLast)
    /\ [](vLast.status = "failed" => (vpc = "done" /\ RaisedFailed))
    /\ [](vLast.status = "completed" => (vpc = "done" /\ vResult.kind = "value"))
    /\ [][ vPolls' # vPolls => (~IsTerminal(vLast) /\ Len(vPolls') = Len(vPolls) + 1) ]_vars
    /\ [](RaisedTimedOut =>
            /\ now >= RequestedMaxWait
            /\ ~IsTerminal(vLast)
            /\ vResult.error.message[2] = RequestedMaxWait)
    /\ [](vpc \in {"sleeping", "polling"} => checkedAt < RequestedMaxWait)
    /\ [](vpc = "sleeping" => now = checkedAt)
    /\ [](vpc = "done" =>
            \/ vResult.kind = "value"
            \/ RaisedFailed
            \/ RaisedTimedOut
            \/ vResult.kind = "error" /\ vResult.error.type = "apierror")

C30_Witness ==
    /\ vpc = "done"
    /\ RaisedTimedOut
    /\ Len(vPolls) >= 2
    /\ vLast.status = "in_progress"
    /\ vOpts.maxWaitMs = 3000
    /\ now >= 3000

\* C30, return side: a completed status is returned after earlier polls that
\* were still queued
C30_CompletedCase ==
    /\ vpc = "done"
    /\ vResult.kind = "value"
    /\ vResult.value.status = "completed"
    /\ Len(vPolls) >= 3
    /\ now > 3000

====
